---- MODULE Spec2Model ----
(***************************************************************************)
(* A model of the Cameo frame-capture lifecycle (ch3/cameo/managers.py):   *)
(* CaptureManager (enterFrame / frame / exitFrame, image and video export, *)
(* lazy construction of the video writer) and WindowManager (window        *)
(* lifecycle, event dispatch).  The external library (cv2, time) is the    *)
(* environment: its results are nondeterministic inputs of the actions and *)
(* the calls made to it are recorded in `calls`.                           *)
(***************************************************************************)
EXTENDS Integers, Sequences, FiniteSets, TLC

\* ---------------------------------------------------------------- values

\* Python's None and a present value: an optional is a sequence of length <= 1.
None == <<>>
Some(x) == <<x>>

\* Bound on the frames processed by exitFrame in one run (caps _framesElapsed).
MaxFrames == 21

\* The clock's jitter: the frame processed k-th after the first is processed
\* k + j ticks after it, for a j of this set.
Jitter == {0, 1}

\* The number of elapsed frames _writeVideoFrame waits for before it trusts
\* the frame-rate estimate.
MinFramesForEstimate == 20

\* A frame is one row of pixels; np.fliplr reverses it.
Images == {<<1, 2>>}

fliplr(img) == [i \in 1..Len(img) |-> img[Len(img) + 1 - i]]

\* A rate is a fraction <<numerator, denominator>> (frames, clock ticks).
\* The rates a capture source reports for CAP_PROP_FPS: 0 is "unknown".
ReportedRates == {<<0, 1>>, <<30, 1>>}

\* The frame sizes a capture source reports (width, height).
ReportedSizes == {<<640, 480>>, <<320, 240>>}

\* What a capture source reports: an unknown rate, or a known rate at either size.
CaptureProps ==
    {p \in [fps : ReportedRates, size : ReportedSizes] :
        p.fps[1] <= 0 => p.size = <<640, 480>>}

ImagePaths == {"a.png", "b.png"}
\* The (filename, encoding) arguments startWritingVideo is called with.
VideoTargets == {<<"a.avi", "MJPG">>, <<"b.avi", "I420">>}
Channels == {0, 1}
\* cv2.waitKey: -1 is "no key"; tab, escape, space and another key.
NoKey == -1
KeyCodes == {NoKey, 9, 27, 32, 97}
RetrieveOutcomes == {None} \cup {Some(i) : i \in Images}
WindowNames == {"Cameo", "Preview"}

\* ------------------------------------------------------------- variables

VARIABLES
    \* CaptureManager
    previewWindowManager,   \* BOOLEAN: a WindowManager is attached
    shouldMirrorPreview,    \* BOOLEAN
    capture,                \* None, or Some(the source's reported properties)
    channel,
    enteredFrame,
    frame,                  \* _frame: None or Some(image)
    imageFilename,          \* None or Some(path)
    videoFilename,          \* None or Some(path)
    videoEncoding,          \* None or Some(fourcc)
    videoWriter,            \* None or Some(the encoder's construction parameters)
    startTime,              \* None or Some(clock reading)
    framesElapsed,
    fpsEstimate,            \* None or Some(rate)
    \* WindowManager
    keypressCallback,       \* BOOLEAN: a callback is registered
    mouseCallback,          \* BOOLEAN: a callback is registered
    windowName,
    isWindowCreated,
    \* environment
    clock,                  \* the last reading of time.time()
    windowExists,           \* the external library holds a window of this name
    \* observation of the last operation
    raised,                 \* it ended with an exception
    calls,                  \* the external calls it made, in order
    \* clients of the managers, utils.py and filters.py
    pc,                     \* the client's position: in Cameo.run, before or after a call
    filter,                 \* a filter object of filters.py: its fields
    args,                   \* the last function called and its arguments
    ret                     \* what it returned, or wrote to its destination

cmVars == <<previewWindowManager, shouldMirrorPreview, capture, channel,
            enteredFrame, frame, imageFilename, videoFilename, videoEncoding,
            videoWriter, startTime, framesElapsed, fpsEstimate>>
wmVars == <<keypressCallback, mouseCallback, windowName, isWindowCreated>>
envVars == <<clock, windowExists>>
appVars == <<pc, filter, args, ret>>
vars == <<cmVars, wmVars, envVars, raised, calls, appVars>>

\* What time.time() may return in the exitFrame that finds `elapsed` frames
\* processed, `start` being its reading for the first of them: the clock never
\* runs backwards and keeps within Jitter of one tick per frame.
Readings(elapsed, start) ==
    IF elapsed = 0
    THEN {clock}
    ELSE {t \in {start[1] + elapsed + j : j \in Jitter} : t >= clock}

\* --------------------------------------------------------- WindowManager

\* WindowManager.show: the external calls it makes.
ShowCalls(img) ==
    IF isWindowCreated
    THEN <<[fn |-> "imshow", name |-> windowName, image |-> img]>>
    ELSE <<>>

\* WindowManager.createWindow.
createWindow ==
    /\ raised' = FALSE
    /\ IF ~isWindowCreated
       THEN /\ calls' = <<[fn |-> "namedWindow", name |-> windowName]>>
                        \o (IF mouseCallback
                            THEN <<[fn |-> "setMouseCallback", name |-> windowName]>>
                            ELSE <<>>)
            /\ windowExists' = TRUE
            /\ isWindowCreated' = TRUE
       ELSE /\ calls' = <<>>
            /\ UNCHANGED <<windowExists, isWindowCreated>>
    /\ UNCHANGED <<cmVars, keypressCallback, mouseCallback, windowName, clock>>

\* WindowManager.show.
show ==
    /\ raised' = FALSE
    /\ \E img \in Images : calls' = ShowCalls(img)
    /\ UNCHANGED <<cmVars, wmVars, envVars>>

\* destroyWindow leaving the created flag set.
destroyWindowKeepsFlag ==
    /\ raised' = FALSE
    /\ IF isWindowCreated
       THEN /\ calls' = <<[fn |-> "destroyWindow", name |-> windowName]>>
            /\ windowExists' = FALSE
            /\ UNCHANGED isWindowCreated
       ELSE /\ calls' = <<>>
            /\ UNCHANGED <<windowExists, isWindowCreated>>
    /\ UNCHANGED <<cmVars, keypressCallback, mouseCallback, windowName, clock>>

\* WindowManager.destroyWindow.
destroyWindow ==
    /\ raised' = FALSE
    /\ IF isWindowCreated
       THEN /\ calls' = <<[fn |-> "destroyWindow", name |-> windowName]>>
            /\ windowExists' = FALSE
            /\ isWindowCreated' = FALSE
       ELSE /\ calls' = <<>>
            /\ UNCHANGED <<windowExists, isWindowCreated>>
    /\ UNCHANGED <<cmVars, keypressCallback, mouseCallback, windowName, clock>>

\* processEvents calling the key callback whatever the poll returned.
processEventsDispatchesNoKey ==
    /\ raised' = FALSE
    /\ \E keycode \in KeyCodes :
           calls' = <<[fn |-> "waitKey", ret |-> keycode]>>
                    \o (IF keypressCallback
                        THEN <<[fn |-> "keypressCallback", keycode |-> keycode]>>
                        ELSE <<>>)
    /\ UNCHANGED <<cmVars, wmVars, envVars>>

\* WindowManager.processEvents: one poll, then at most one callback.
processEvents ==
    /\ raised' = FALSE
    /\ \E keycode \in KeyCodes :
           calls' = <<[fn |-> "waitKey", ret |-> keycode]>>
                    \o (IF keypressCallback /\ keycode # NoKey
                        THEN <<[fn |-> "keypressCallback", keycode |-> keycode]>>
                        ELSE <<>>)
    /\ UNCHANGED <<cmVars, wmVars, envVars>>

\* ---------------------------------------------------------- CaptureManager

isWritingImage == imageFilename # None

isWritingVideo == videoFilename # None

\* CaptureManager.channel (the setter).
setChannel ==
    /\ raised' = FALSE
    /\ calls' = <<>>
    /\ \E value \in Channels :
           IF channel # value
           THEN channel' = value /\ frame' = None
           ELSE UNCHANGED <<channel, frame>>
    /\ UNCHANGED <<previewWindowManager, shouldMirrorPreview, capture,
                   enteredFrame, imageFilename, videoFilename, videoEncoding,
                   videoWriter, startTime, framesElapsed, fpsEstimate,
                   wmVars, envVars>>

\* CaptureManager.frame (the property): whether it asks capture.retrieve.
frameRetrieves == enteredFrame /\ frame = None

\* The value of _frame after the property is read, `retrieved` being what
\* capture.retrieve yields (None on failure).
frameProp(retrieved) ==
    IF frameRetrieves THEN retrieved ELSE frame

RetrieveCalls(retrieved) ==
    IF frameRetrieves
    THEN <<[fn |-> "retrieve", channel |-> channel, ret |-> retrieved]>>
    ELSE <<>>

\* _writeVideoFrame building a writer for every frame.
hasNoWriterAlways == TRUE

\* _writeVideoFrame, line 202: no writer has been constructed yet.
hasNoWriter == videoWriter = None

\* _writeVideoFrame waiting one frame longer.
mustWaitForEstimateOneMore(fps, elapsed) ==
    fps[1] <= 0 /\ elapsed <= MinFramesForEstimate

\* _writeVideoFrame waiting for the estimate whatever the source reports.
mustWaitForEstimateAnyRate(fps, elapsed) ==
    elapsed < MinFramesForEstimate

\* _writeVideoFrame never waiting for the estimate.
mustWaitForEstimateNever(fps, elapsed) == FALSE

\* _writeVideoFrame, lines 204-209: the source's rate is unknown and the
\* estimate is not trusted yet.
mustWaitForEstimate(fps, elapsed) ==
    fps[1] <= 0 /\ elapsed < MinFramesForEstimate

\* _writeVideoFrame, lines 203-211: the rate the writer is constructed with.
writerRate(fps, estimate) ==
    IF fps[1] <= 0 THEN estimate ELSE Some(fps)

\* CaptureManager._writeVideoFrame, called with the counters exitFrame has
\* just updated: the writer afterwards and the external calls made.
writeVideoFrame(elapsed, estimate, img) ==
    IF ~isWritingVideo
    THEN [writer |-> videoWriter, calls |-> <<>>]
    ELSE IF hasNoWriter
         THEN LET fps == capture[1].fps IN
              IF mustWaitForEstimate(fps, elapsed)
              THEN [writer |-> videoWriter, calls |-> <<>>]
              ELSE LET w == [filename |-> videoFilename[1],
                             encoding |-> videoEncoding[1],
                             fps      |-> writerRate(fps, estimate),
                             size     |-> capture[1].size]
                   IN [writer |-> Some(w),
                       calls  |-> <<[fn |-> "VideoWriter", writer |-> w],
                                    [fn |-> "write", writer |-> w, image |-> img]>>]
         ELSE [writer |-> videoWriter,
               calls  |-> <<[fn |-> "write", writer |-> videoWriter[1],
                             image |-> img]>>]

\* enterFrame without its assertion: it grabs whatever the flag says.
enterFrameNoAssert ==
    /\ raised' = FALSE
    /\ IF capture # None
       THEN \E grabbed \in BOOLEAN :
                /\ enteredFrame' = grabbed
                /\ calls' = <<[fn |-> "grab", ret |-> grabbed]>>
       ELSE /\ calls' = <<>>
            /\ UNCHANGED enteredFrame
    /\ UNCHANGED <<previewWindowManager, shouldMirrorPreview, capture,
                   channel, frame, imageFilename, videoFilename,
                   videoEncoding, videoWriter, startTime, framesElapsed,
                   fpsEstimate, wmVars, envVars>>

\* CaptureManager.enterFrame: the assertion, then the grab.
enterFrame ==
    /\ IF enteredFrame
       THEN /\ raised' = TRUE
            /\ calls' = <<>>
            /\ UNCHANGED enteredFrame
       ELSE /\ raised' = FALSE
            /\ IF capture # None
               THEN \E grabbed \in BOOLEAN :
                        /\ enteredFrame' = grabbed
                        /\ calls' = <<[fn |-> "grab", ret |-> grabbed]>>
               ELSE /\ calls' = <<>>
                    /\ UNCHANGED enteredFrame
    /\ UNCHANGED <<previewWindowManager, shouldMirrorPreview, capture,
                   channel, frame, imageFilename, videoFilename,
                   videoEncoding, videoWriter, startTime, framesElapsed,
                   fpsEstimate, wmVars, envVars>>

\* Reading CaptureManager.frame.
readFrame ==
    /\ raised' = FALSE
    /\ \E retrieved \in RetrieveOutcomes :
           /\ frame' = frameProp(retrieved)
           /\ calls' = RetrieveCalls(retrieved)
    /\ UNCHANGED <<previewWindowManager, shouldMirrorPreview, capture, channel,
                   enteredFrame, imageFilename, videoFilename, videoEncoding,
                   videoWriter, startTime, framesElapsed, fpsEstimate,
                   wmVars, envVars>>

\* The image export writing the mirrored preview instead of the frame.
writeImageFileMirrored(img) ==
    IF isWritingImage
    THEN [calls |-> <<[fn |-> "imwrite", name |-> imageFilename[1],
                       image |-> fliplr(img)]>>,
          imageFilename |-> None]
    ELSE [calls |-> <<>>, imageFilename |-> imageFilename]

\* The image export leaving its request pending.
writeImageFileKeepsRequest(img) ==
    IF isWritingImage
    THEN [calls |-> <<[fn |-> "imwrite", name |-> imageFilename[1], image |-> img]>>,
          imageFilename |-> imageFilename]
    ELSE [calls |-> <<>>, imageFilename |-> imageFilename]

\* exitFrame, lines 152-155: the pending image export.  The external calls
\* made and the request afterwards.
writeImageFile(img) ==
    IF isWritingImage
    THEN [calls |-> <<[fn |-> "imwrite", name |-> imageFilename[1], image |-> img]>>,
          imageFilename |-> None]
    ELSE [calls |-> <<>>, imageFilename |-> imageFilename]

\* exitFrame, lines 144-150: the preview.
showPreview(img) ==
    IF previewWindowManager
    THEN ShowCalls(IF shouldMirrorPreview THEN fliplr(img) ELSE img)
    ELSE <<>>

\* exitFrame returning early without resetting the flag.
exitFrameNoFrameKeepsFlag(retrieved) ==
    /\ frame' = frameProp(retrieved)
    /\ calls' = RetrieveCalls(retrieved)
    /\ UNCHANGED <<enteredFrame, imageFilename, videoWriter, startTime,
                   framesElapsed, fpsEstimate, clock>>

\* exitFrame returning early and dropping the pending image request.
exitFrameNoFrameDropsRequest(retrieved) ==
    /\ enteredFrame' = FALSE
    /\ frame' = frameProp(retrieved)
    /\ calls' = RetrieveCalls(retrieved)
    /\ imageFilename' = None
    /\ UNCHANGED <<videoWriter, startTime, framesElapsed, fpsEstimate, clock>>

\* exitFrame when the frame property yields None.
exitFrameNoFrame(retrieved) ==
    /\ enteredFrame' = FALSE
    /\ frame' = frameProp(retrieved)
    /\ calls' = RetrieveCalls(retrieved)
    /\ UNCHANGED <<imageFilename, videoWriter, startTime, framesElapsed,
                   fpsEstimate, clock>>

\* exitFrame when the frame property yields image `img`; `now` is what
\* time.time() returns.
exitFrameWithFrame(retrieved, img, now) ==
    LET est == IF framesElapsed = 0
               THEN fpsEstimate
               ELSE Some(<<framesElapsed, now - startTime[1]>>)
        image == writeImageFile(img)
        video == writeVideoFrame(framesElapsed + 1, est, img)
    IN /\ framesElapsed < MaxFrames
       /\ clock' = now
       /\ startTime' = IF framesElapsed = 0 THEN Some(now) ELSE startTime
       /\ fpsEstimate' = est
       /\ framesElapsed' = framesElapsed + 1
       /\ imageFilename' = image.imageFilename
       /\ videoWriter' = video.writer
       /\ calls' = RetrieveCalls(retrieved) \o showPreview(img) \o image.calls
                   \o video.calls
       /\ frame' = None
       /\ enteredFrame' = FALSE

\* CaptureManager.exitFrame.
exitFrame ==
    /\ raised' = FALSE
    /\ \E retrieved \in RetrieveOutcomes :
         LET cur == frameProp(retrieved) IN
         IF cur = None
         THEN exitFrameNoFrame(retrieved)
         ELSE \E now \in Readings(framesElapsed, startTime) :
                  exitFrameWithFrame(retrieved, cur[1], now)
    /\ UNCHANGED <<previewWindowManager, shouldMirrorPreview, capture, channel,
                   videoFilename, videoEncoding, wmVars, windowExists>>

\* CaptureManager.writeImage(filename).
writeImageTo(filename) ==
    /\ raised' = FALSE
    /\ calls' = <<>>
    /\ imageFilename' = Some(filename)
    /\ UNCHANGED <<previewWindowManager, shouldMirrorPreview, capture, channel,
                   enteredFrame, frame, videoFilename, videoEncoding,
                   videoWriter, startTime, framesElapsed, fpsEstimate,
                   wmVars, envVars>>

\* A client calls CaptureManager.writeImage.
writeImage == \E filename \in ImagePaths : writeImageTo(filename)

\* startWritingVideo starting the frame count anew.
startWritingVideoToResetsCount(filename, encoding) ==
    /\ raised' = FALSE
    /\ calls' = <<>>
    /\ videoFilename' = Some(filename)
    /\ videoEncoding' = Some(encoding)
    /\ framesElapsed' = 0
    /\ UNCHANGED <<previewWindowManager, shouldMirrorPreview, capture, channel,
                   enteredFrame, frame, imageFilename, videoWriter, startTime,
                   fpsEstimate, wmVars, envVars>>

\* CaptureManager.startWritingVideo(filename, encoding).
startWritingVideoTo(filename, encoding) ==
    /\ raised' = FALSE
    /\ calls' = <<>>
    /\ videoFilename' = Some(filename)
    /\ videoEncoding' = Some(encoding)
    /\ UNCHANGED <<previewWindowManager, shouldMirrorPreview, capture, channel,
                   enteredFrame, frame, imageFilename, videoWriter, startTime,
                   framesElapsed, fpsEstimate, wmVars, envVars>>

\* A client calls CaptureManager.startWritingVideo.
startWritingVideo ==
    \E target \in VideoTargets : startWritingVideoTo(target[1], target[2])

\* stopWritingVideo keeping the writer it has.
stopWritingVideoKeepsWriter ==
    /\ raised' = FALSE
    /\ calls' = <<>>
    /\ videoFilename' = None
    /\ videoEncoding' = None
    /\ UNCHANGED <<previewWindowManager, shouldMirrorPreview, capture, channel,
                   enteredFrame, frame, imageFilename, videoWriter, startTime,
                   framesElapsed, fpsEstimate, wmVars, envVars>>

\* CaptureManager.stopWritingVideo.
stopWritingVideo ==
    /\ raised' = FALSE
    /\ calls' = <<>>
    /\ videoFilename' = None
    /\ videoEncoding' = None
    /\ videoWriter' = None
    /\ UNCHANGED <<previewWindowManager, shouldMirrorPreview, capture, channel,
                   enteredFrame, frame, imageFilename, startTime,
                   framesElapsed, fpsEstimate, wmVars, envVars>>

\* The capture source starts reporting other properties (cv2.VideoCapture.get
\* is asked anew by every _writeVideoFrame that has no writer yet).
captureChanges ==
    /\ capture # None
    /\ raised' = FALSE
    /\ calls' = <<>>
    /\ \E p \in CaptureProps : capture' = Some(p)
    /\ UNCHANGED <<previewWindowManager, shouldMirrorPreview, channel,
                   enteredFrame, frame, imageFilename, videoFilename,
                   videoEncoding, videoWriter, startTime, framesElapsed,
                   fpsEstimate, wmVars, envVars>>

\* ------------------------------------------------------------------ runs

\* CaptureManager.__init__ and WindowManager.__init__.
InitManagers ==
    /\ channel = 0
    /\ enteredFrame = FALSE
    /\ frame = None
    /\ imageFilename = None
    /\ videoFilename = None
    /\ videoEncoding = None
    /\ videoWriter = None
    /\ startTime = None
    /\ framesElapsed = 0
    /\ fpsEstimate = None
    /\ isWindowCreated = FALSE
    /\ clock = 0
    /\ windowExists = FALSE
    /\ raised = FALSE
    /\ calls = <<>>

\* No client of utils.py or filters.py, and no Cameo, is running.
NoClient ==
    /\ pc = "idle"
    /\ filter = None
    /\ args = None
    /\ ret = None

\* A CaptureManager on a capture source, previewing in a WindowManager that
\* has a key callback, as cameo.py constructs them.
Init ==
    /\ InitManagers
    /\ NoClient
    /\ capture \in {Some(p) : p \in CaptureProps}
    /\ previewWindowManager = TRUE
    /\ shouldMirrorPreview \in BOOLEAN
    /\ keypressCallback = TRUE
    /\ mouseCallback = FALSE
    /\ windowName = "Cameo"

Next ==
    \/ enterFrame /\ UNCHANGED appVars
    \/ readFrame /\ UNCHANGED appVars
    \/ exitFrame /\ UNCHANGED appVars
    \/ writeImage /\ UNCHANGED appVars
    \/ startWritingVideo /\ UNCHANGED appVars
    \/ stopWritingVideo /\ UNCHANGED appVars
    \/ captureChanges /\ UNCHANGED appVars
    \/ createWindow /\ UNCHANGED appVars
    \/ destroyWindow /\ UNCHANGED appVars

Spec == Init /\ [][Next]_vars

\* The frame protocol alone, on a source whose channel the client switches.
NextFrame ==
    \/ enterFrame /\ UNCHANGED appVars
    \/ readFrame /\ UNCHANGED appVars
    \/ exitFrame /\ UNCHANGED appVars
    \/ setChannel /\ UNCHANGED appVars

\* A CaptureManager with or without a capture source and a preview window.
InitFrame ==
    /\ InitManagers
    /\ NoClient
    /\ capture \in {None} \cup {Some(p) : p \in CaptureProps}
    /\ previewWindowManager \in BOOLEAN
    /\ shouldMirrorPreview \in {b \in BOOLEAN : b => previewWindowManager}
    /\ keypressCallback = TRUE
    /\ mouseCallback = FALSE
    /\ windowName = "Cameo"

SpecFrame == InitFrame /\ [][NextFrame]_vars

\* A WindowManager on its own, with any callbacks.
InitWindow ==
    /\ InitManagers
    /\ NoClient
    /\ capture = None
    /\ previewWindowManager = FALSE
    /\ shouldMirrorPreview = FALSE
    /\ keypressCallback \in BOOLEAN
    /\ mouseCallback \in BOOLEAN
    /\ windowName \in WindowNames

NextWindow ==
    \/ createWindow /\ UNCHANGED appVars
    \/ show /\ UNCHANGED appVars
    \/ destroyWindow /\ UNCHANGED appVars
    \/ processEvents /\ UNCHANGED appVars

SpecWindow == InitWindow /\ [][NextWindow]_vars

\* --------------------------------------------------------------- numbers

\* A float is an exact fraction <<numerator, denominator>> in lowest terms with
\* a positive denominator; NaN is <<0, 0>>.
NaN == <<0, 0>>

IsNaN(a) == a[2] = 0

Abs(n) == IF n < 0 THEN -n ELSE n

RECURSIVE Gcd(_, _)
Gcd(a, b) == IF b = 0 THEN a ELSE Gcd(b, a % b)

\* The fraction n / d for d > 0, in lowest terms.
Frac(n, d) == LET g == Gcd(Abs(n), d) IN <<n \div g, d \div g>>

Num(i) == <<i, 1>>

\* Arithmetic and comparison as floats do them: NaN propagates through
\* arithmetic, and every comparison with NaN is false.
Add(a, b) ==
    IF IsNaN(a) \/ IsNaN(b) THEN NaN
    ELSE Frac(a[1] * b[2] + b[1] * a[2], a[2] * b[2])

Sub(a, b) == Add(a, <<-b[1], b[2]>>)

Mul(a, b) ==
    IF IsNaN(a) \/ IsNaN(b) THEN NaN
    ELSE Frac(a[1] * b[1], a[2] * b[2])

Div(a, b) ==
    IF IsNaN(a) \/ IsNaN(b) \/ b[1] = 0 THEN NaN
    ELSE IF b[1] < 0 THEN Frac(-(a[1] * b[2]), a[2] * (-b[1]))
    ELSE Frac(a[1] * b[2], a[2] * b[1])

Less(a, b) == ~IsNaN(a) /\ ~IsNaN(b) /\ a[1] * b[2] < b[1] * a[2]

\* Python's max(a, b) and min(a, b): the first argument unless the second
\* compares greater (less).
max(a, b) == IF Less(a, b) THEN b ELSE a

min(a, b) == IF Less(b, a) THEN b ELSE a

\* ---------------------------------------------------------------- utils.py

\* A callable is a record: a client's function x -> slope * x + offset, the
\* object scipy.interpolate.interp1d returns, or createCompositeFunc's lambda.
Affine(slope, offset) == [kind |-> "affine", slope |-> slope, offset |-> offset]

interp1d(xs, ys, kind) == [kind |-> "interp1d", xs |-> xs, ys |-> ys, interp |-> kind]

RECURSIVE Basis(_, _, _, _)
\* The product over m # j, m >= from, of (x - xs[m]) / (xs[j] - xs[m]).
Basis(xs, j, from, x) ==
    IF from > Len(xs) THEN Num(1)
    ELSE IF from = j THEN Basis(xs, j, from + 1, x)
    ELSE Mul(Div(Sub(x, Num(xs[from])), Num(xs[j] - xs[from])),
             Basis(xs, j, from + 1, x))

RECURSIVE Interpolate(_, _, _, _)
\* The polynomial through the points (xs[j], ys[j]), j >= from, at x: what
\* interp1d computes for 2 points when linear, 3 when quadratic, 4 when cubic.
Interpolate(xs, ys, from, x) ==
    IF from > Len(xs) THEN Num(0)
    ELSE Add(Mul(Num(ys[from]), Basis(xs, from, 1, x)),
             Interpolate(xs, ys, from + 1, x))

\* Calling an interp1d object built with bounds_error = False: NaN outside the
\* range of the control points.
callInterp(f, x) ==
    IF \/ IsNaN(x)
       \/ \A j \in 1..Len(f.xs) : Less(x, Num(f.xs[j]))
       \/ \A j \in 1..Len(f.xs) : Less(Num(f.xs[j]), x)
    THEN NaN
    ELSE Interpolate(f.xs, f.ys, 1, x)

RECURSIVE call(_, _)
\* Calling a callable with the float x.
call(f, x) ==
    IF f.kind = "affine" THEN Add(Mul(f.slope, x), f.offset)
    ELSE IF f.kind = "interp1d" THEN callInterp(f, x)
    ELSE call(f.func0, call(f.func1, x))

\* The control points createCurveFunc is given: None or no point, one point,
\* two to four points with distinct x, and lists in which two points share x.
WellFormedPoints ==
    { <<<<0, 0>>, <<255, 255>>>>,
      <<<<0, 255>>, <<255, 0>>>>,
      <<<<0, -20>>, <<255, 300>>>>,
      <<<<10, 0>>, <<20, 255>>>>,
      <<<<0, 0>>, <<1, 1>>, <<2, 4>>>>,
      <<<<0, 0>>, <<23, 20>>, <<157, 173>>, <<255, 255>>>> }

DuplicateXPoints ==
    { <<<<0, 0>>, <<0, 5>>>>,
      <<<<0, 0>>, <<1, 1>>, <<1, 4>>>>,
      <<<<0, 0>>, <<41, 46>>, <<41, 228>>, <<255, 255>>>> }

PointLists == {None, <<<<0, 0>>>>} \cup WellFormedPoints \cup DuplicateXPoints

HasDuplicateX(points) ==
    \E i, j \in 1..Len(points) : i # j /\ points[i][1] = points[j][1]

\* createCurveFunc, lines 21-26: the interpolation kind.
curveKind(numPoints) ==
    IF numPoints < 3 THEN "linear"
    ELSE IF numPoints < 4 THEN "quadratic"
    ELSE "cubic"

\* utils.createCurveFunc: its possible outcomes.  It returns None for fewer
\* than two points and whatever the interp1d constructor does otherwise; the
\* constructor is given x-values as they come, and on x-values that are not
\* distinct it either returns an object or raises, depending on kind and version.
createCurveFunc(points) ==
    IF Len(points) < 2
    THEN {[raised |-> FALSE, value |-> None]}
    ELSE LET xs == [i \in 1..Len(points) |-> points[i][1]]
             ys == [i \in 1..Len(points) |-> points[i][2]]
             made == [raised |-> FALSE,
                      value  |-> Some(interp1d(xs, ys, curveKind(Len(points))))]
         IN IF HasDuplicateX(points)
            THEN {made, [raised |-> TRUE, value |-> None]}
            ELSE {made}

\* createLookupArray storing its values without the upper clamp.
lookupEntryUnclampedAbove(func, i, length) == max(Num(0), call(func, Num(i)))

\* The entries of the table createLookupArray fills: lines 45-48.
lookupEntry(func, i, length) == min(max(Num(0), call(func, Num(i))), Num(length - 1))

\* utils.createLookupArray.
createLookupArray(func, length) ==
    IF func = None
    THEN None
    ELSE Some([i \in 0..(length - 1) |-> lookupEntry(func[1], i, length)])

\* Storing a float into an array of 8-bit unsigned integers truncates it.
uint8(v) == (v[1] \div v[2]) % 256

\* applyLookupArray rounding to the nearest integer instead of truncating.
applyLookupArrayRounds(lookupArray, src, dst) ==
    IF lookupArray = None
    THEN dst
    ELSE [i \in DOMAIN src |->
             LET v == lookupArray[1][src[i]]
             IN ((2 * v[1] + v[2]) \div (2 * v[2])) % 256]

\* utils.applyLookupArray: dst afterwards.
applyLookupArray(lookupArray, src, dst) ==
    IF lookupArray = None
    THEN dst
    ELSE [i \in DOMAIN src |-> uint8(lookupArray[1][src[i]])]

\* createCompositeFunc applying its arguments in the other order.
createCompositeFuncSwapped(func0, func1) ==
    IF func0 = None THEN func1
    ELSE IF func1 = None THEN func0
    ELSE Some([kind |-> "lambda", func0 |-> func1[1], func1 |-> func0[1]])

\* utils.createCompositeFunc.
createCompositeFunc(func0, func1) ==
    IF func0 = None THEN func1
    ELSE IF func1 = None THEN func0
    ELSE Some([kind |-> "lambda", func0 |-> func0[1], func1 |-> func1[1]])

\* The functions a client passes to a function-based filter.
ClientFuncs ==
    { Affine(Num(1), Num(0)),
      Affine(Num(2), Num(-100)),
      Affine(<<1, 2>>, <<1, 2>>),
      Affine(Num(-1), Num(300)) }

\* The curves createCurveFunc makes of control points with few, small
\* coordinates.
CurvePoints ==
    { <<<<0, 0>>, <<255, 255>>>>,
      <<<<0, 255>>, <<255, 0>>>>,
      <<<<0, -20>>, <<255, 300>>>>,
      <<<<10, 0>>, <<20, 255>>>>,
      <<<<0, 0>>, <<1, 1>>, <<2, 4>>>> }

Curves == {c.value[1] : c \in UNION {createCurveFunc(points) : points \in CurvePoints}}

Funcs == ClientFuncs \cup Curves

OptFuncs == {None} \cup {Some(f) : f \in Funcs}

\* np.iinfo(np.uint8).max + 1, the length of every lookup table.
UInt8Length == 256

\* One row of 8-bit pixel values.
Rows == {<<0, 1, 2>>, <<10, 15, 20>>, <<100, 128, 200>>, <<253, 254, 255>>}

\* The calls a client of utils.py makes: the function and its arguments.
UtilsCalls ==
    {[fn |-> "createCurveFunc", points |-> points] : points \in PointLists}
    \cup {[fn |-> "createCompositeFunc", func0 |-> func0, func1 |-> func1] :
              func0 \in OptFuncs, func1 \in OptFuncs}
    \cup {[fn |-> "createLookupArray", func |-> createCompositeFunc(func0, func1),
           length |-> UInt8Length] : func0 \in OptFuncs, func1 \in OptFuncs}
    \cup {[fn |-> "applyLookupArray",
           lookupArray |-> createLookupArray(func, UInt8Length), src |-> src] :
              func \in OptFuncs, src \in Rows}

\* utils.createCurveFunc is called.
callCreateCurveFunc ==
    /\ pc = "call"
    /\ args.fn = "createCurveFunc"
    /\ \E out \in createCurveFunc(args.points) :
           /\ raised' = out.raised
           /\ ret' = out.value
    /\ pc' = "return"
    /\ UNCHANGED <<cmVars, wmVars, envVars, calls, filter, args>>

\* utils.createCompositeFunc is called.
callCreateCompositeFunc ==
    /\ pc = "call"
    /\ args.fn = "createCompositeFunc"
    /\ ret' = createCompositeFunc(args.func0, args.func1)
    /\ pc' = "return"
    /\ UNCHANGED <<cmVars, wmVars, envVars, raised, calls, filter, args>>

\* utils.createLookupArray is called.
callCreateLookupArray ==
    /\ pc = "call"
    /\ args.fn = "createLookupArray"
    /\ ret' = createLookupArray(args.func, args.length)
    /\ pc' = "return"
    /\ UNCHANGED <<cmVars, wmVars, envVars, raised, calls, filter, args>>

\* utils.applyLookupArray is called on a row, in place: ret is the row
\* afterwards.
callApplyLookupArray ==
    /\ pc = "call"
    /\ args.fn = "applyLookupArray"
    /\ ret' = Some(applyLookupArray(args.lookupArray, args.src, args.src))
    /\ pc' = "return"
    /\ UNCHANGED <<cmVars, wmVars, envVars, raised, calls, filter, args>>

\* No manager in use: no capture source, no window, no callback.
NoManagers ==
    /\ InitManagers
    /\ capture = None
    /\ previewWindowManager = FALSE
    /\ shouldMirrorPreview = FALSE
    /\ keypressCallback = FALSE
    /\ mouseCallback = FALSE
    /\ windowName = "Cameo"

\* A client about to call one function of utils.py.
InitUtils ==
    /\ NoManagers
    /\ filter = None
    /\ pc = "call"
    /\ args \in UtilsCalls
    /\ ret = None

NextUtils ==
    \/ callCreateCurveFunc
    \/ callCreateCompositeFunc
    \/ callCreateLookupArray
    \/ callApplyLookupArray

SpecUtils == InitUtils /\ [][NextUtils]_vars

\* -------------------------------------------------------------- filters.py

\* A BGR image is a sequence of pixels <<b, g, r>> of 8-bit values; cv2.split
\* gives the three channels and cv2.merge puts them together again.
split(img) == [c \in 1..3 |-> [i \in DOMAIN img |-> img[i][c]]]

merge(channels) == [i \in DOMAIN channels[1] |-> [c \in 1..3 |-> channels[c][i]]]

\* BGRFuncFilter.__init__: the three lookup arrays.  `funcs` keeps the
\* arguments <<vFunc, bFunc, gFunc, rFunc>> the object was made of; the code
\* does not store them and nothing reads them.
BGRFuncFilter(vFunc, bFunc, gFunc, rFunc) ==
    [class |-> "BGRFuncFilter",
     funcs |-> <<vFunc, bFunc, gFunc, rFunc>>,
     bLookupArray |-> createLookupArray(createCompositeFunc(bFunc, vFunc), UInt8Length),
     gLookupArray |-> createLookupArray(createCompositeFunc(gFunc, vFunc), UInt8Length),
     rLookupArray |-> createLookupArray(createCompositeFunc(rFunc, vFunc), UInt8Length)]

\* BGRCurveFilter.__init__: the filters it can construct from control points
\* (none when createCurveFunc raises).
BGRCurveFilter(vPoints, bPoints, gPoints, rPoints) ==
    {BGRFuncFilter(v.value, b.value, g.value, r.value) :
        v \in {o \in createCurveFunc(vPoints) : ~o.raised},
        b \in {o \in createCurveFunc(bPoints) : ~o.raised},
        g \in {o \in createCurveFunc(gPoints) : ~o.raised},
        r \in {o \in createCurveFunc(rPoints) : ~o.raised}}

\* The function-based filters of the model.
BGRFuncFilters ==
    {BGRFuncFilter(v, b, g, r) :
        v \in {None, Some(Affine(<<1, 2>>, <<1, 2>>)), Some(Affine(Num(1), Num(0)))},
        b \in {None, Some(Affine(Num(2), Num(-100)))},
        g \in {None, Some(Affine(Num(-1), Num(300)))},
        r \in {None, Some(Affine(<<1, 2>>, <<1, 2>>))}}

\* The curve-based filters of the model: each curve absent (no points, or
\* one point) or a line through two control points.
BGRCurveFilters ==
    UNION {BGRCurveFilter(v, b, g, r) :
        v \in {None, <<<<0, -20>>, <<255, 300>>>>},
        b \in {<<<<0, 0>>>>, <<<<10, 0>>, <<20, 255>>>>},
        g \in {None, <<<<0, 255>>, <<255, 0>>>>},
        r \in {None, <<<<0, 0>>, <<255, 255>>>>}}

\* The BGR images the lookup filters are applied to: 32 pixels each, every
\* 8-bit value occurring in every channel of one of them.
BGRImages ==
    {[i \in 1..32 |-> <<(32 * k + i - 1) % 256,
                        (32 * k + i + 84) % 256,
                        255 - ((32 * k + i - 1) % 256)>>] : k \in 0..7}

\* BGRFuncFilter.apply: dst afterwards.
applyBGRFunc(f, src) ==
    LET bgr == split(src)
        b == applyLookupArray(f.bLookupArray, bgr[1], bgr[1])
        g == applyLookupArray(f.gLookupArray, bgr[2], bgr[2])
        r == applyLookupArray(f.rLookupArray, bgr[3], bgr[3])
    IN merge(<<b, g, r>>)

\* BGRFuncFilter.apply is called.
callApplyBGRFunc ==
    /\ pc = "call"
    /\ args.fn = "apply"
    /\ filter # None
    /\ filter[1].class = "BGRFuncFilter"
    /\ ret' = Some(applyBGRFunc(filter[1], args.src))
    /\ pc' = "return"
    /\ UNCHANGED <<cmVars, wmVars, envVars, raised, calls, filter, args>>

\* The kernels of SharpenFilter, FindEdgesFilter and EmbossFilter.
SharpenKernel == <<<<-1, -1, -1>>, <<-1, 9, -1>>, <<-1, -1, -1>>>>

FindEdgesKernel == <<<<-1, -1, -1>>, <<-1, 8, -1>>, <<-1, -1, -1>>>>

EmbossKernel == <<<<-2, -1, 0>>, <<-1, 1, 1>>, <<0, 1, 2>>>>

\* VConvolutionFilter.__init__, as the subclasses call it.
VConvolutionFilter(class, kernel) == [class |-> class, kernel |-> kernel]

ConvolutionFilters ==
    { VConvolutionFilter("SharpenFilter", SharpenKernel),
      VConvolutionFilter("FindEdgesFilter", FindEdgesKernel),
      VConvolutionFilter("EmbossFilter", EmbossKernel) }

\* A gray image is a sequence of rows of 8-bit values.  The flat images of
\* three shapes, and two images that are not flat.
Shapes == {<<1, 1>>, <<2, 3>>, <<3, 3>>}

FlatImage(shape, v) == [y \in 1..shape[1] |-> [x \in 1..shape[2] |-> v]]

GrayImages ==
    {FlatImage(shape, v) : shape \in Shapes, v \in 0..255}
    \cup { <<<<0, 0, 0>>, <<0, 255, 0>>, <<0, 0, 0>>>>,
           <<<<10, 20, 30>>, <<40, 50, 60>>>> }

\* A border that is black instead of the image mirrored.
borderPixelBlack(img, y, x) ==
    IF y \in 1..Len(img) /\ x \in 1..Len(img[1]) THEN img[y][x] ELSE 0

\* cv2's default border (BORDER_REFLECT_101) for a kernel of radius 1: the
\* 0-based coordinate p of an axis of length len, mirrored into the image.
borderInterpolate(p, len) ==
    IF len = 1 THEN 0
    ELSE IF p < 0 THEN -p
    ELSE IF p >= len THEN 2 * len - 2 - p
    ELSE p

\* The pixel filter2D reads at row y, column x (1-based, possibly outside).
borderPixel(img, y, x) ==
    img[borderInterpolate(y - 1, Len(img)) + 1]
       [borderInterpolate(x - 1, Len(img[1])) + 1]

\* Conversion of a result to an 8-bit pixel.
saturate(v) == IF v < 0 THEN 0 ELSE IF v > 255 THEN 255 ELSE v

RECURSIVE correlate(_, _, _, _, _)
\* The sum of kernel[i][j] * pixel over the kernel's cells from the n-th on
\* (row by row), the kernel's centre lying on (y, x).
correlate(img, kernel, y, x, n) ==
    IF n > 9 THEN 0
    ELSE LET i == ((n - 1) \div 3) + 1
             j == ((n - 1) % 3) + 1
         IN kernel[i][j] * borderPixel(img, y + i - 2, x + j - 2)
            + correlate(img, kernel, y, x, n + 1)

\* cv2.filter2D(src, -1, kernel, dst) for a 3x3 kernel: dst afterwards.
filter2D(src, kernel) ==
    [y \in 1..Len(src) |->
        [x \in 1..Len(src[1]) |-> saturate(correlate(src, kernel, y, x, 1))]]

\* VConvolutionFilter.apply is called.
callApplyConvolution ==
    /\ pc = "call"
    /\ args.fn = "apply"
    /\ filter # None
    /\ filter[1].class # "BGRFuncFilter"
    /\ ret' = Some(filter2D(args.src, filter[1].kernel))
    /\ pc' = "return"
    /\ UNCHANGED <<cmVars, wmVars, envVars, raised, calls, filter, args>>

\* strokeEdges works on buffers through cv2 only, so a buffer is a term that
\* says how it was made: the source with its pixels, or the result of a cv2
\* function or of numpy arithmetic on other buffers.
Source(img) == [op |-> "source", pixels |-> img]

medianBlur(buf, ksize) == [op |-> "medianBlur", of |-> buf, ksize |-> ksize]

cvtColorGray(buf) == [op |-> "cvtColor", of |-> buf]

Laplacian(buf, ksize) == [op |-> "Laplacian", of |-> buf, ksize |-> ksize]

\* (1.0 / 255) * (255 - graySrc)
inverseAlpha(buf) == [op |-> "inverseAlpha", of |-> buf]

\* Channel c of cv2.split(buf).
channelOf(buf, c) == [op |-> "channel", of |-> buf, index |-> c]

\* channel[:] = channel * normalizedInverseAlpha
multiplied(chan, alpha) == [op |-> "multiply", channel |-> chan, alpha |-> alpha]

merged(channels) == [op |-> "merge", channels |-> channels]

\* The arguments strokeEdges is called with.
StrokeSources == {Source(<<<<1, 2, 3>>>>), Source(<<<<10, 20, 30>>, <<40, 50, 60>>>>)}

BlurKsizes == -1..8

EdgeKsizes == {1, 3, 5, 7}

\* strokeEdges blurring only above kernel size 3.
shouldBlurAboveThree(blurKsize) == blurKsize > 3

\* strokeEdges, line 165.
shouldBlur(blurKsize) == blurKsize >= 3

\* filters.strokeEdges: whether it raised, the cv2 calls it made and dst
\* afterwards.  cv2.medianBlur rejects an even kernel size.
strokeEdges(src, dst, blurKsize, edgeKsize) ==
    LET blur == [fn |-> "medianBlur", src |-> src, ksize |-> blurKsize]
        blurredSrc == medianBlur(src, blurKsize)
        grayOf == IF shouldBlur(blurKsize) THEN blurredSrc ELSE src
        graySrc == Laplacian(cvtColorGray(grayOf), edgeKsize)
        normalizedInverseAlpha == inverseAlpha(graySrc)
        channels == [c \in 1..3 |-> multiplied(channelOf(src, c), normalizedInverseAlpha)]
    IN IF shouldBlur(blurKsize) /\ blurKsize % 2 = 0
       THEN [raised |-> TRUE, calls |-> <<blur>>, dst |-> dst]
       ELSE [raised |-> FALSE,
             calls  |-> (IF shouldBlur(blurKsize) THEN <<blur>> ELSE <<>>)
                        \o <<[fn |-> "cvtColor", src |-> grayOf],
                             [fn |-> "Laplacian", src |-> cvtColorGray(grayOf),
                              ksize |-> edgeKsize],
                             [fn |-> "split", src |-> src],
                             [fn |-> "merge", channels |-> channels]>>,
             dst    |-> merged(channels)]

\* filters.strokeEdges is called, in place as Cameo.run calls it.
callStrokeEdges ==
    /\ pc = "call"
    /\ args.fn = "strokeEdges"
    /\ LET out == strokeEdges(args.src, args.src, args.blurKsize, args.edgeKsize)
       IN /\ raised' = out.raised
          /\ calls' = out.calls
          /\ ret' = Some(out.dst)
    /\ pc' = "return"
    /\ UNCHANGED <<cmVars, wmVars, envVars, filter, args>>

\* A client about to apply a filter it has constructed, or to call
\* strokeEdges.
InitFilters ==
    /\ NoManagers
    /\ pc = "call"
    /\ ret = None
    /\ \/ /\ filter \in {Some(f) : f \in BGRFuncFilters \cup BGRCurveFilters}
          /\ args \in {[fn |-> "apply", src |-> src] : src \in BGRImages}
       \/ /\ filter \in {Some(f) : f \in ConvolutionFilters}
          /\ args \in {[fn |-> "apply", src |-> src] : src \in GrayImages}
       \/ /\ filter = None
          /\ args \in {[fn |-> "strokeEdges", src |-> src, blurKsize |-> b,
                        edgeKsize |-> e] :
                          src \in StrokeSources, b \in BlurKsizes, e \in EdgeKsizes}

NextFilters ==
    \/ callApplyBGRFunc
    \/ callApplyConvolution
    \/ callStrokeEdges

SpecFilters == InitFilters /\ [][NextFilters]_vars

\* ---------------------------------------------------------------- cameo.py

\* What strokeEdges and the curve filter, which work in place, may leave in
\* the frame.
ProcessedImages == {<<1, 2>>, <<0, 1>>}

\* Cameo.run, line 29.
runCreateWindow ==
    /\ pc = "createWindow"
    /\ createWindow
    /\ pc' = "while"
    /\ UNCHANGED <<filter, args, ret>>

\* Cameo.run, line 30: the loop's test.
runLoopTest ==
    /\ pc = "while"
    /\ pc' = IF isWindowCreated THEN "enterFrame" ELSE "done"
    /\ UNCHANGED <<cmVars, wmVars, envVars, raised, calls, filter, args, ret>>

\* Cameo.run, line 31; an exception ends run.
runEnterFrame ==
    /\ pc = "enterFrame"
    /\ enterFrame
    /\ pc' = IF raised' THEN "aborted" ELSE "frame"
    /\ UNCHANGED <<filter, args, ret>>

\* Cameo.run, lines 32-35: the frame is read and, when there is one,
\* filtered in place.
runProcessFrame ==
    /\ pc = "frame"
    /\ raised' = FALSE
    /\ \E retrieved \in RetrieveOutcomes :
           IF frameProp(retrieved) = None
           THEN /\ frame' = None
                /\ calls' = RetrieveCalls(retrieved)
           ELSE /\ \E img \in ProcessedImages : frame' = Some(img)
                /\ calls' = RetrieveCalls(retrieved)
                            \o <<[fn |-> "strokeEdges"], [fn |-> "apply"]>>
    /\ pc' = "exitFrame"
    /\ UNCHANGED <<previewWindowManager, shouldMirrorPreview, capture, channel,
                   enteredFrame, imageFilename, videoFilename, videoEncoding,
                   videoWriter, startTime, framesElapsed, fpsEstimate,
                   wmVars, envVars, filter, args, ret>>

\* Cameo.run going on to processEvents without calling exitFrame.
runExitFrameSkipped ==
    /\ pc = "exitFrame"
    /\ pc' = "processEvents"
    /\ UNCHANGED <<cmVars, wmVars, envVars, raised, calls, filter, args, ret>>

\* Cameo.run, line 36.
runExitFrame ==
    /\ pc = "exitFrame"
    /\ exitFrame
    /\ pc' = "processEvents"
    /\ UNCHANGED <<filter, args, ret>>

\* Cameo.run, line 37: the poll; the callback, when it is called, is
\* Cameo.onKeypress.
runProcessEvents ==
    /\ pc = "processEvents"
    /\ processEvents
    /\ pc' = IF \E i \in DOMAIN calls' : calls'[i].fn = "keypressCallback"
             THEN "onKeypress"
             ELSE "while"
    /\ UNCHANGED <<filter, args, ret>>

\* Cameo.onKeypress(keycode), called by processEvents.
runOnKeypress ==
    /\ pc = "onKeypress"
    /\ LET keycode == calls[2].keycode IN
       IF keycode = 32
       THEN writeImageTo("screenshot.png")
       ELSE IF keycode = 9
       THEN IF ~isWritingVideo
            THEN startWritingVideoTo("screencast.avi", "MJPG")
            ELSE stopWritingVideo
       ELSE IF keycode = 27
       THEN destroyWindow
       ELSE /\ raised' = FALSE
            /\ calls' = <<>>
            /\ UNCHANGED <<cmVars, wmVars, envVars>>
    /\ pc' = "while"
    /\ UNCHANGED <<filter, args, ret>>

\* Cameo.__init__: a window manager with the key callback, a capture manager
\* on camera 0 previewing mirrored in that window, and a curve filter (whose
\* tables play no part here).
InitCameo ==
    /\ InitManagers
    /\ capture \in {Some(p) : p \in CaptureProps}
    /\ previewWindowManager = TRUE
    /\ shouldMirrorPreview = TRUE
    /\ keypressCallback = TRUE
    /\ mouseCallback = FALSE
    /\ windowName = "Cameo"
    /\ filter = Some([class |-> "BGRPortraCurveFilter"])
    /\ args = None
    /\ ret = None
    /\ pc = "createWindow"

NextCameo ==
    \/ runCreateWindow
    \/ runLoopTest
    \/ runEnterFrame
    \/ runProcessFrame
    \/ runExitFrame
    \/ runProcessEvents
    \/ runOnKeypress

SpecCameo == InitCameo /\ [][NextCameo]_vars

\* ---------------------------------------------------------------- claims

\* The calls to external function `f` among `cs`, in order.
CallsNamed(cs, f) == SelectSeq(cs, LAMBDA c : c.fn = f)

\* The last operation was an enterFrame that asked the source to grab.
JustGrabbed == Len(calls) = 1 /\ calls[1].fn = "grab"

\* In a step: the grab this step's enterFrame made succeeded.
GrabSucceeds == enterFrame /\ calls' = <<[fn |-> "grab", ret |-> TRUE]>>

\* In an exitFrame step: what its read of the frame property yields, given
\* the external calls `cs` the step makes.
FrameAtExit(cs) ==
    IF frameRetrieves /\ CallsNamed(cs, "retrieve") # <<>>
    THEN CallsNamed(cs, "retrieve")[1].ret
    ELSE frame

\* C1 as stated: whatever the first enterFrame's grab yields, an enterFrame
\* that directly follows an enterFrame fails with the assertion error.
C1_SecondEnterFrameAlwaysFails ==
    [][JustGrabbed /\ enterFrame => raised']_vars

\* C1 as amended: an enterFrame whose grab succeeds sets enteredFrame, the flag
\* stays set over every step that is not an exitFrame, and an enterFrame made
\* while it is set fails with the assertion error and changes nothing; an
\* enterFrame made while it is clear (as after a failed grab) does not fail.
C1_SecondEnterFrameFailsAfterGrab ==
    [][ /\ (GrabSucceeds => enteredFrame')
        /\ (enteredFrame /\ ~exitFrame => enteredFrame')
        /\ (enterFrame /\ enteredFrame =>
                raised' /\ calls' = <<>> /\ UNCHANGED <<cmVars, wmVars, envVars>>)
        /\ (enterFrame /\ ~enteredFrame => ~raised') ]_vars

\* C1's case: a second enterFrame has just failed.
C1_Witness == raised /\ enteredFrame

\* C2: enteredFrame is clear at construction, it becomes set only by an
\* enterFrame whose grab succeeds, a cached frame exists only while it is set,
\* and every exitFrame leaves it clear and the cached frame absent.
C2_EnteredFrameOnlyBetweenEnterAndExit ==
    /\ ~enteredFrame
    /\ [](frame # None => enteredFrame)
    /\ [][ /\ (~enteredFrame /\ enteredFrame' => GrabSucceeds)
           /\ (exitFrame => ~enteredFrame' /\ frame' = None) ]_vars

\* C2's case: an exitFrame that had to retrieve the frame has returned.
C2_Witness ==
    /\ ~enteredFrame
    /\ frame = None
    /\ CallsNamed(calls, "retrieve") # <<>>

\* The last operation was an enterFrame whose grab failed.
JustGrabFailed == calls = <<[fn |-> "grab", ret |-> FALSE]>>

\* The last operation was a read of the frame property whose retrieval failed.
JustRetrieveFailed ==
    /\ enteredFrame
    /\ Len(calls) = 1
    /\ calls[1].fn = "retrieve"
    /\ calls[1].ret = None

\* In a step: an exitFrame whose read of the frame property yields `img`.
ExitsWith(img) == exitFrame /\ FrameAtExit(calls') = Some(img)

\* In a step: an exitFrame whose read of the frame property yields None.
ExitsWithout == exitFrame /\ FrameAtExit(calls') = None

\* The calls among `cs` that construct a video writer or append to one.
VideoCalls(cs) == SelectSeq(cs, LAMBDA c : c.fn \in {"VideoWriter", "write"})

\* The calls among `cs` that show, write or append a frame.
OutputCalls(cs) ==
    SelectSeq(cs, LAMBDA c : c.fn \in {"imshow", "imwrite", "VideoWriter", "write"})

\* The calls that construct writer `w` and append `img` to it.
ConstructAndAppend(w, img) ==
    <<[fn |-> "VideoWriter", writer |-> w],
      [fn |-> "write", writer |-> w, image |-> img]>>

\* C3: on a source of unknown rate, with recording armed and no encoder, the
\* exitFrame of each of the frames 0 to 18 appends nothing and leaves the
\* encoder unconstructed, and the exitFrame of frame 19 constructs the encoder
\* with the estimate computed from the 19 frames before it and appends frame 19.
C3_UnknownRateWaitsForFrame19 ==
    [][\A img \in Images :
          ( /\ ExitsWith(img)
            /\ isWritingVideo
            /\ videoWriter = None
            /\ capture[1].fps[1] <= 0 ) =>
          IF framesElapsed < 19
          THEN videoWriter' = None /\ VideoCalls(calls') = <<>>
          ELSE /\ fpsEstimate' # None
               /\ fpsEstimate'[1][1] = framesElapsed
               /\ videoWriter' # None
               /\ videoWriter'[1].fps = fpsEstimate'
               /\ VideoCalls(calls') = ConstructAndAppend(videoWriter'[1], img)
       ]_vars

\* C3's case: the exitFrame of frame 19 has constructed the encoder from the
\* estimate and appended to it.
C3_Witness ==
    /\ framesElapsed = 20
    /\ capture[1].fps[1] <= 0
    /\ videoWriter # None
    /\ videoWriter[1].fps = fpsEstimate
    /\ Len(VideoCalls(calls)) = 2

\* An exitFrame that is a no-op apart from the flag: no counter, request,
\* target or encoder changes and no frame is shown, written or appended.
NoOpExit ==
    /\ UNCHANGED <<framesElapsed, startTime, fpsEstimate, imageFilename,
                   videoFilename, videoEncoding, videoWriter>>
    /\ OutputCalls(calls') = <<>>

\* C4 as stated: the exitFrame that follows a failed grab, and the exitFrame
\* that follows a failed retrieval, is a no-op apart from resetting enteredFrame.
C4_ExitFrameAfterFailureIsNoOp ==
    [][(JustGrabFailed \/ JustRetrieveFailed) /\ exitFrame =>
           NoOpExit /\ ~enteredFrame']_vars

\* C4 as amended: the exitFrame that follows a failed grab, and every exitFrame
\* whose own read of the frame property yields no frame (it asks the source
\* again when an earlier retrieval of the cycle failed), is a no-op apart from
\* resetting enteredFrame.
C4_ExitFrameWithoutFrameIsNoOp ==
    [][ /\ (JustGrabFailed /\ exitFrame => NoOpExit /\ ~enteredFrame')
        /\ (ExitsWithout => NoOpExit /\ ~enteredFrame' /\ frame' = None) ]_vars

\* C4's case: an exitFrame whose retrieval failed has returned, with an image
\* request pending, an encoder open, a window to show in and frames counted.
C4_Witness ==
    /\ ~enteredFrame
    /\ Len(calls) = 1 /\ calls[1].fn = "retrieve" /\ calls[1].ret = None
    /\ isWritingImage
    /\ videoWriter # None
    /\ isWindowCreated
    /\ framesElapsed > 0

\* The calls among `cs` that write image file `path`.
ImwritesTo(cs, path) ==
    SelectSeq(cs, LAMBDA c : c.fn = "imwrite" /\ c.name = path)

\* C5 as stated: the exitFrame that follows writeImage(path) writes the
\* current frame to path.
C5_NextExitFrameWritesImage ==
    [][exitFrame /\ isWritingImage =>
           ImwritesTo(calls', imageFilename[1]) # <<>>]_vars

\* C5 as amended: writeImage(path) leaves a request for path pending; it
\* stays pending over every step but an exitFrame or another writeImage,
\* and over an exitFrame that has no frame; the next exitFrame that has a
\* frame writes that frame, unmirrored, to path.
C5_NextExitFrameWithFrameWritesImage ==
    [][ /\ (writeImage => isWritingImage')
        /\ (isWritingImage /\ ~exitFrame /\ ~writeImage =>
                imageFilename' = imageFilename)
        /\ (isWritingImage /\ ExitsWithout =>
                imageFilename' = imageFilename /\ CallsNamed(calls', "imwrite") = <<>>)
        /\ \A img \in Images :
               isWritingImage /\ ExitsWith(img) =>
                   CallsNamed(calls', "imwrite") =
                       <<[fn |-> "imwrite", name |-> imageFilename[1], image |-> img]>>
      ]_vars

\* C5's case: an exitFrame has written a requested image while the preview
\* showed the frame mirrored.
C5_Witness ==
    /\ CallsNamed(calls, "imwrite") # <<>>
    /\ CallsNamed(calls, "imshow") # <<>>
    /\ shouldMirrorPreview

\* C6 as stated: every request is written once, so a pending request leaves
\* the manager only in an exitFrame that writes its path.
C6_EveryRequestFiresOnce ==
    [][isWritingImage /\ imageFilename' # imageFilename =>
           exitFrame /\ ImwritesTo(calls', imageFilename[1]) # <<>>]_vars

\* C6 as amended: the manager holds one pending request, the most recent
\* writeImage's; an exitFrame writes at most one image, writes one only when a
\* request is pending and then clears it, so that no later exitFrame writes it
\* again; no other operation writes an image.
C6_PendingRequestFiresOnce ==
    [][ /\ (exitFrame => Len(CallsNamed(calls', "imwrite")) <= 1)
        /\ (exitFrame /\ ~isWritingImage => CallsNamed(calls', "imwrite") = <<>>)
        /\ (exitFrame /\ CallsNamed(calls', "imwrite") # <<>> =>
                /\ ImwritesTo(calls', imageFilename[1]) # <<>>
                /\ imageFilename' = None)
        /\ (~exitFrame => CallsNamed(calls', "imwrite") = <<>>)
        /\ (writeImage => \E path \in ImagePaths : imageFilename' = Some(path))
      ]_vars

\* C6's case: an exitFrame has written the requested image and cleared the
\* request.
C6_Witness ==
    /\ CallsNamed(calls, "imwrite") # <<>>
    /\ imageFilename = None
    /\ ~enteredFrame

\* C7: an encoder is present only while recording is armed; startWritingVideo
\* constructs none; one is constructed only in an exitFrame that has a frame;
\* stopWritingVideo leaves target and encoder absent; an exitFrame made while
\* recording is disarmed appends nothing.
C7_EncoderOnlyWhileArmed ==
    /\ [](videoWriter # None => isWritingVideo)
    /\ [][ /\ (startWritingVideo =>
                   videoWriter' = videoWriter /\ VideoCalls(calls') = <<>>)
           /\ (videoWriter' # None /\ videoWriter' # videoWriter =>
                   \E img \in Images : ExitsWith(img))
           /\ (CallsNamed(calls', "VideoWriter") # <<>> =>
                   \E img \in Images : ExitsWith(img))
           /\ (stopWritingVideo =>
                   videoFilename' = None /\ videoEncoding' = None
                   /\ videoWriter' = None)
           /\ (exitFrame /\ ~isWritingVideo => VideoCalls(calls') = <<>>)
         ]_vars

\* C7's case: an encoder is present, constructed by this exitFrame, after the
\* source had delivered earlier frames.
C7_Witness ==
    /\ videoWriter # None
    /\ isWritingVideo
    /\ CallsNamed(calls, "VideoWriter") # <<>>
    /\ framesElapsed > 1

\* C8: with recording armed, no encoder and a positive reported rate, an
\* exitFrame that has a frame constructs the encoder with the armed target,
\* that rate and the source's current size, and appends the frame, whatever
\* framesElapsed is.
C8_KnownRateConstructsAtOnce ==
    [][\A img \in Images :
          ( /\ ExitsWith(img)
            /\ isWritingVideo
            /\ videoWriter = None
            /\ capture[1].fps[1] > 0 ) =>
          LET w == [filename |-> videoFilename[1],
                    encoding |-> videoEncoding[1],
                    fps      |-> Some(capture[1].fps),
                    size     |-> capture[1].size]
          IN /\ videoWriter' = Some(w)
             /\ VideoCalls(calls') = ConstructAndAppend(w, img)
      ]_vars

\* C8's case: the exitFrame of the very first frame has constructed the
\* encoder with the reported rate and appended the frame.
C8_Witness ==
    /\ framesElapsed = 1
    /\ videoWriter # None
    /\ videoWriter[1].fps = Some(capture[1].fps)
    /\ videoWriter[1].size = capture[1].size
    /\ Len(VideoCalls(calls)) = 2

\* C9: an encoder that is held keeps the parameters it was constructed with,
\* and an exitFrame that has a frame while one is held only appends to it.
C9_EncoderParametersNeverChange ==
    [][ /\ (videoWriter # None /\ videoWriter' # None => videoWriter' = videoWriter)
        /\ \A img \in Images :
               ExitsWith(img) /\ isWritingVideo /\ videoWriter # None =>
                   VideoCalls(calls') =
                       <<[fn |-> "write", writer |-> videoWriter[1], image |-> img]>>
      ]_vars

\* C9's case: a frame has been appended to an encoder whose rate and size are
\* no longer what the source reports.
C9_Witness ==
    /\ videoWriter # None
    /\ videoWriter[1].fps # Some(capture[1].fps)
    /\ videoWriter[1].size # capture[1].size
    /\ Len(VideoCalls(calls)) = 1

\* C10: the external window exists exactly when the created flag is set;
\* createWindow on a created window and destroyWindow on a window that is not
\* created call nothing and leave the flag; show reaches the library exactly
\* when the window is created; createWindow on a window that is not created
\* (destroyed ones included) creates it.
C10_WindowExistsIffCreated ==
    /\ [](windowExists <=> isWindowCreated)
    /\ [][ /\ (createWindow /\ isWindowCreated =>
                   calls' = <<>> /\ isWindowCreated')
           /\ (createWindow /\ ~isWindowCreated =>
                   /\ isWindowCreated'
                   /\ calls'[1] = [fn |-> "namedWindow", name |-> windowName])
           /\ (destroyWindow /\ ~isWindowCreated =>
                   calls' = <<>> /\ ~isWindowCreated')
           /\ (destroyWindow /\ isWindowCreated =>
                   /\ ~isWindowCreated'
                   /\ calls' = <<[fn |-> "destroyWindow", name |-> windowName]>>)
           /\ (show => (CallsNamed(calls', "imshow") # <<>> <=> isWindowCreated))
         ]_vars

\* C10's case: show has reached the library on a created window.
C10_Witness ==
    /\ isWindowCreated
    /\ windowExists
    /\ CallsNamed(calls, "imshow") # <<>>

\* C11: each processEvents polls once, before anything else; it calls the key
\* callback at most once, with the polled key code, exactly when a callback is
\* registered and the poll returned a key (not -1); it calls nothing else and
\* changes no state of the managers.
C11_ProcessEventsDispatchesAtMostOnce ==
    [][processEvents =>
          /\ Len(CallsNamed(calls', "waitKey")) = 1
          /\ calls'[1].fn = "waitKey"
          /\ Len(CallsNamed(calls', "keypressCallback")) <= 1
          /\ Len(calls') = 1 + Len(CallsNamed(calls', "keypressCallback"))
          /\ (CallsNamed(calls', "keypressCallback") # <<>> <=>
                  keypressCallback /\ calls'[1].ret # -1)
          /\ (CallsNamed(calls', "keypressCallback") # <<>> =>
                  calls'[2] = [fn |-> "keypressCallback", keycode |-> calls'[1].ret])
          /\ UNCHANGED <<cmVars, wmVars, envVars>>
      ]_vars

\* C11's case: a processEvents has polled a key and called the callback with it.
C11_Witness ==
    /\ Len(calls) = 2
    /\ calls[1] = [fn |-> "waitKey", ret |-> 32]
    /\ calls[2] = [fn |-> "keypressCallback", keycode |-> 32]

\* Function `f` of utils.py or filters.py was called and has returned.
Called(f) == pc = "return" /\ args.fn = f

\* The floats the functions are compared at: pixel values, a fraction, NaN.
SampleInputs == {Num(i) : i \in {0, 1, 2, 15, 100, 255}} \cup {<<1, 2>>, NaN}

\* C12: createCompositeFunc(f, g) is f when g is absent and g when f is
\* absent (absent when both are), and when both are present it is a function
\* whose value at every x is f(g(x)).
C12_CompositeAppliesInnerThenOuter ==
    Called("createCompositeFunc") =>
        LET f == args.func0
            g == args.func1
        IN /\ (g = None => ret = f)
           /\ (f = None => ret = g)
           /\ (f # None /\ g # None =>
                  /\ ret # None
                  /\ \A x \in SampleInputs :
                         call(ret[1], x) = call(f[1], call(g[1], x)))

\* C12's case: a composite of two present functions that do not commute.
C12_Witness ==
    /\ Called("createCompositeFunc")
    /\ args.func0 # None
    /\ args.func1 # None
    /\ ret # None
    /\ \E x \in SampleInputs :
           call(ret[1], x) # call(args.func1[1], call(args.func0[1], x))

\* C13: for a present function and length 256, createLookupArray returns a
\* table of exactly the entries 0..255, each a number within [0, 255]: 0 where
\* the function's value is below 0, 255 where it is above 255, and the value
\* itself where it lies inside the range.
C13_LookupEntriesClamped ==
    Called("createLookupArray") /\ args.func # None /\ args.length = 256 =>
        /\ ret # None
        /\ DOMAIN ret[1] = 0..255
        /\ \A i \in 0..255 :
               LET v == call(args.func[1], Num(i))
                   e == ret[1][i]
               IN /\ ~IsNaN(e)
                  /\ ~Less(e, Num(0))
                  /\ ~Less(Num(255), e)
                  /\ (Less(v, Num(0)) => e = Num(0))
                  /\ (Less(Num(255), v) => e = Num(255))
                  /\ (~IsNaN(v) /\ ~Less(v, Num(0)) /\ ~Less(Num(255), v) => e = v)

\* C13's case: a table built from a function that runs below 0, through the
\* range (with values that are not whole numbers) and above 255.
C13_Witness ==
    /\ Called("createLookupArray")
    /\ ret # None
    /\ \E i \in 0..255 :
           Less(call(args.func[1], Num(i)), Num(0)) /\ ret[1][i] = Num(0)
    /\ \E i \in 0..255 :
           Less(Num(255), call(args.func[1], Num(i))) /\ ret[1][i] = Num(255)
    /\ \E i \in 0..255 : ret[1][i][2] > 1

\* C14: createCurveFunc given fewer than two points, or points of which two
\* share an x-value, returns None and does not raise.
C14_MalformedPointsGiveAbsentCurve ==
    Called("createCurveFunc")
    /\ (Len(args.points) < 2 \/ HasDuplicateX(args.points)) =>
        ~raised /\ ret = None

\* C14's case: createCurveFunc has been given two or more points that share
\* an x-value and has handed them to interp1d.
C14_Witness ==
    /\ Called("createCurveFunc")
    /\ Len(args.points) >= 2
    /\ HasDuplicateX(args.points)
    /\ (raised \/ ret # None)

\* A function that may be absent, applied to x: an absent one is the identity.
OrIdentity(f, x) == IF f = None THEN x ELSE call(f[1], x)

\* A number clamped to [0, 255] (NaN to 0).
Clamp(v) == min(max(Num(0), v), Num(255))

\* What the filter's functions make of value x of channel c (1 = b, 2 = g,
\* 3 = r): channelFunc(valueFunc(x)) clamped, or x when both are absent.
ChannelResult(f, c, x) ==
    IF f.funcs[1] = None /\ f.funcs[c + 1] = None
    THEN Num(x)
    ELSE Clamp(OrIdentity(f.funcs[c + 1], OrIdentity(f.funcs[1], Num(x))))

\* A BGRFuncFilter (or BGRCurveFilter) has been applied.
AppliedBGRFunc ==
    Called("apply") /\ filter # None /\ filter[1].class = "BGRFuncFilter"

\* C15 as stated: apply writes, for every pixel and channel,
\* clamp(channelFunc(valueFunc(x))), an absent function being the identity.
C15_ApplyWritesClampedComposite ==
    AppliedBGRFunc =>
        \A i \in DOMAIN args.src : \A c \in 1..3 :
            Num(ret[1][i][c]) = ChannelResult(filter[1], c, args.src[i][c])

\* C15 as amended: apply writes, for every pixel and channel, the integer
\* part of clamp(channelFunc(valueFunc(x))), an absent function being the
\* identity; a channel both of whose functions are absent is copied; and
\* apply leaves the filter's tables as they were constructed.
C15_ApplyWritesTruncatedClampedComposite ==
    /\ [](AppliedBGRFunc =>
            \A i \in DOMAIN args.src : \A c \in 1..3 :
                LET v == ChannelResult(filter[1], c, args.src[i][c])
                IN /\ ret[1][i][c] = v[1] \div v[2]
                   /\ (filter[1].funcs[1] = None /\ filter[1].funcs[c + 1] = None =>
                          ret[1][i][c] = args.src[i][c]))
    /\ [][callApplyBGRFunc => filter' = filter]_vars

\* C15's case: a filter with a value function and a channel function has
\* been applied, has left a third channel as it was, and has written a value
\* whose fraction was cut off.
C15_Witness ==
    /\ AppliedBGRFunc
    /\ filter[1].funcs[1] # None
    /\ filter[1].funcs[2] # None
    /\ \E i \in DOMAIN args.src : \E c \in 1..3 :
           ChannelResult(filter[1], c, args.src[i][c])[2] > 1
    /\ \E i \in DOMAIN args.src : ret[1][i][1] # args.src[i][1]

RECURSIVE KernelSum(_, _)
\* The sum of the kernel's weights from the n-th cell on, row by row.
KernelSum(kernel, n) ==
    IF n > 9 THEN 0
    ELSE kernel[((n - 1) \div 3) + 1][((n - 1) % 3) + 1] + KernelSum(kernel, n + 1)

\* Every pixel of the gray image has value v.
IsFlat(img, v) == \A y \in DOMAIN img : \A x \in DOMAIN img[y] : img[y][x] = v

\* C16: the sharpen filter's kernel is [[-1,-1,-1],[-1,9,-1],[-1,-1,-1]] and
\* its weights sum to 1, the edge-detect kernel's weights sum to 0, and the
\* sharpen filter applied to a buffer all of whose pixels have the same value
\* v (0..255) yields that buffer, border pixels included.
C16_SharpenKeepsFlatBuffers ==
    /\ (filter # None /\ filter[1].class = "SharpenFilter" =>
           /\ filter[1].kernel = <<<<-1, -1, -1>>, <<-1, 9, -1>>, <<-1, -1, -1>>>>
           /\ KernelSum(filter[1].kernel, 1) = 1)
    /\ (filter # None /\ filter[1].class = "FindEdgesFilter" =>
           KernelSum(filter[1].kernel, 1) = 0)
    /\ (Called("apply") /\ filter # None /\ filter[1].class = "SharpenFilter" =>
           \A v \in 0..255 : IsFlat(args.src, v) => ret[1] = args.src)

\* C16's case: the sharpen filter has been applied to a flat 3x3 buffer of a
\* value whose ninefold exceeds 255.
C16_Witness ==
    /\ Called("apply")
    /\ filter # None
    /\ filter[1].class = "SharpenFilter"
    /\ Len(args.src) = 3
    /\ IsFlat(args.src, 200)
    /\ ret[1] = args.src

\* C17: strokeEdges calls the median blur exactly when blurKsize >= 3, on the
\* source; below 3 it converts the unblurred source to grayscale, from 3 on
\* the blurred one; and whenever it multiplies channels by the alpha map,
\* they are the channels of the original source and the product is what dst
\* receives.
C17_StrokeEdgesBlursFromThree ==
    Called("strokeEdges") =>
        LET blurs == CallsNamed(calls, "medianBlur")
            grays == CallsNamed(calls, "cvtColor")
            merges == CallsNamed(calls, "merge")
        IN /\ (blurs # <<>> <=> args.blurKsize >= 3)
           /\ (blurs # <<>> =>
                  blurs = <<[fn |-> "medianBlur", src |-> args.src,
                             ksize |-> args.blurKsize]>>)
           /\ (args.blurKsize < 3 =>
                  ~raised /\ grays = <<[fn |-> "cvtColor", src |-> args.src]>>)
           /\ (args.blurKsize >= 3 /\ ~raised =>
                  grays = <<[fn |-> "cvtColor",
                             src |-> medianBlur(args.src, args.blurKsize)]>>)
           /\ (~raised =>
                  /\ CallsNamed(calls, "split") = <<[fn |-> "split", src |-> args.src]>>
                  /\ Len(merges) = 1
                  /\ \A c \in 1..3 :
                         /\ merges[1].channels[c].channel = channelOf(args.src, c)
                         /\ merges[1].channels[c].alpha.op = "inverseAlpha"
                  /\ ret = Some(merged(merges[1].channels)))
           /\ (raised => merges = <<>>)

\* C17's case: strokeEdges has run to its end with a blur of kernel size 3.
C17_Witness ==
    /\ Called("strokeEdges")
    /\ args.blurKsize = 3
    /\ ~raised
    /\ CallsNamed(calls, "medianBlur") # <<>>
    /\ CallsNamed(calls, "merge") # <<>>

\* The frames an unknown-rate source still has to deliver before a frame is
\* appended, framesElapsed of them having been processed.
FramesToDrop == IF framesElapsed < 19 THEN 19 - framesElapsed ELSE 0

\* C18: framesElapsed counts the frames exitFrame has processed since the
\* CaptureManager was made: only an exitFrame that has a frame changes it, by
\* one, and startWritingVideo and stopWritingVideo leave it alone.  On an
\* unknown-rate source with recording armed and no encoder, a frame is dropped
\* exactly while fewer than 19 frames were processed before it, so that
\* max(0, 19 - n) frames are dropped after arming at n, at most 19, and none
\* from n = 19 on.
C18_DropsUntilNineteenFramesCounted ==
    /\ [](FramesToDrop \in 0..19)
    /\ [][ /\ (framesElapsed' # framesElapsed =>
                   /\ \E img \in Images : ExitsWith(img)
                   /\ framesElapsed' = framesElapsed + 1)
           /\ (startWritingVideo \/ stopWritingVideo =>
                   framesElapsed' = framesElapsed)
           /\ \A img \in Images :
                  ( /\ ExitsWith(img)
                    /\ isWritingVideo
                    /\ videoWriter = None
                    /\ capture[1].fps[1] <= 0 ) =>
                  IF FramesToDrop > 0
                  THEN /\ VideoCalls(calls') = <<>>
                       /\ videoWriter' = None
                       /\ FramesToDrop' = FramesToDrop - 1
                  ELSE /\ videoWriter' # None
                       /\ CallsNamed(calls', "write") =
                              <<[fn |-> "write", writer |-> videoWriter'[1],
                                 image |-> img]>>
         ]_vars

\* C18's case: on an unknown-rate source the frame after the 20th has been
\* appended to an encoder constructed for it, so recording was armed (or armed
\* again after a stop) with 20 frames counted and lost no frame.
C18_Witness ==
    /\ framesElapsed = 21
    /\ capture[1].fps[1] <= 0
    /\ CallsNamed(calls, "VideoWriter") # <<>>
    /\ CallsNamed(calls, "write") # <<>>

\* C19: whenever an encoder is held, it was constructed with the filename and
\* the encoding that are armed now.
C19_EncoderMatchesArmedTarget ==
    videoWriter # None /\ isWritingVideo =>
        /\ videoWriter[1].filename = videoFilename[1]
        /\ videoWriter[1].encoding = videoEncoding[1]

\* C19's case: a frame has been appended to an encoder constructed for a
\* file other than the armed one.
C19_Witness ==
    /\ videoWriter # None
    /\ isWritingVideo
    /\ videoWriter[1].filename # videoFilename[1]
    /\ CallsNamed(calls, "write") # <<>>

\* The key-driven calls of Cameo.onKeypress, seen by what they change:
\* writeImage arms a file, startWritingVideo and stopWritingVideo change the
\* video target, destroyWindow takes the window away.
KeyDrivenEffect ==
    \/ imageFilename' # None /\ imageFilename' # imageFilename
    \/ videoFilename' # videoFilename
    \/ isWindowCreated /\ ~isWindowCreated'

\* C20: in Cameo's main loop, whatever the grabs, the retrievals and the
\* keys, enterFrame is never called while enteredFrame is true, so that no
\* step of the loop raises and run is never aborted; and writeImage,
\* startWritingVideo, stopWritingVideo and destroyWindow run only in
\* onKeypress, which runs after an exitFrame that released the frame and
\* before the next enterFrame.
C20_LoopKeepsFrameProtocol ==
    /\ [](pc = "enterFrame" => ~enteredFrame)
    /\ [](~raised /\ pc # "aborted")
    /\ [](pc = "onKeypress" => ~enteredFrame /\ frame = None)
    /\ [][KeyDrivenEffect => pc = "onKeypress" /\ pc' = "while"]_vars
    /\ [][pc = "onKeypress" => pc' = "while"]_vars
    /\ [][pc' = "onKeypress" => pc = "processEvents"]_vars
    /\ [][pc' = "processEvents" => pc = "exitFrame" /\ ~enteredFrame']_vars

\* The loop has run several times, tab armed the screencast, the encoder was
\* constructed, and the next enterFrame is about to be called.
C20_Witness ==
    /\ pc = "enterFrame"
    /\ ~enteredFrame
    /\ videoFilename = Some("screencast.avi")
    /\ videoWriter # None
    /\ imageFilename = Some("screenshot.png")
    /\ framesElapsed >= 2

\* C21: an encoder is never constructed with an absent frame rate.  In every
\* state, once two frames have been processed the estimate and the start
\* timestamp are present, and while none has been processed both are absent;
\* the encoder held and every encoder the last operation constructed have a
\* rate, and on a source of unknown rate that rate is the estimate, taken
\* when at least 20 frames have been counted.
C21_EncoderRateIsPresent ==
    /\ framesElapsed >= 2 => fpsEstimate # None /\ startTime # None
    /\ framesElapsed = 0 => fpsEstimate = None /\ startTime = None
    /\ videoWriter # None => videoWriter[1].fps # None
    /\ \A i \in DOMAIN calls :
           calls[i].fn = "VideoWriter" =>
               /\ calls[i].writer.fps # None
               /\ capture[1].fps[1] <= 0 =>
                      /\ framesElapsed >= MinFramesForEstimate
                      /\ calls[i].writer.fps = fpsEstimate

\* C21's case: on a source of unknown rate the exitFrame of the twentieth
\* frame has just constructed the encoder with the estimate.
C21_Witness ==
    /\ framesElapsed = MinFramesForEstimate
    /\ capture # None
    /\ capture[1].fps[1] <= 0
    /\ fpsEstimate # None
    /\ videoWriter # None
    /\ \E i \in DOMAIN calls :
           /\ calls[i].fn = "VideoWriter"
           /\ calls[i].writer.fps = fpsEstimate

====
